---- MODULE Spec2Model ----
(***************************************************************************)
(* A model of two API wrappers of the hopsworks client:                    *)
(*   python/hsfs/expectation_suite.py        ExpectationSuite              *)
(*   python/hsml/core/model_api.py           ModelApi                      *)
(*                                                                         *)
(* Python values are modelled as follows.                                  *)
(*   Optional[T]   a tuple: None is <<>>, a value v is <<v>>               *)
(*   dict          a function from string keys to values; a free-form dict *)
(*                 of numbers (a meta, a kwargs) is a set of <<key, value>> *)
(*   a value whose run-time type the code tests (isinstance) is a record   *)
(*   with one field naming the type: [dict |-> d], [str |-> t],            *)
(*   [list |-> s], [ge |-> r], [native |-> r], [other |-> x]               *)
(*   a str whose content matters is a text: [json |-> v] is the JSON       *)
(*   document json.dumps(v) writes, [text |-> s] is a text that is no JSON *)
(***************************************************************************)
EXTENDS Integers, Sequences, FiniteSets, TLC

VARIABLES
    suite,      \* the ExpectationSuite object: its fields
    has_ge,     \* HAS_GREAT_EXPECTATIONS: whether great_expectations is installed
    server,     \* backend: the rule list of the suite, in server order
    registry,   \* backend: the model registry, model key -> entry or absent
    lastOp,     \* the last call made by the caller: its name and arguments
    reqs,       \* the requests that call sent to the backend, in order
    outcome     \* how that call ended: [ret |-> value] or [raise |-> exception]

vars == <<suite, has_ge, server, registry, lastOp, reqs, outcome>>

(***************************************************************************)
(* Bounds of the model.                                                    *)
(***************************************************************************)
\* The longest rule list the backend holds: where the rule-level operations
\* are explored on an attached suite (RuleSpec), and where every operation
\* and setter of the suite is explored (Spec).
MaxRules == 2
MaxRulesLifecycle == 1
\* The highest model version in the registry.
MaxVersion == 2

(***************************************************************************)
(* Python basics.                                                          *)
(***************************************************************************)
None == <<>>
Some(x) == <<x>>

\* `if x:` on an Optional[int]: None and 0 are falsy.
Truthy(o) == o # None /\ o # Some(0)

IsType(v, t) == DOMAIN v = {t}

Raise(e) == [raise |-> e]
Return(v) == [ret |-> v]
Raised(o) == "raise" \in DOMAIN o
Returned(o) == "ret" \in DOMAIN o

\* The backend error the transport client raises for a non-2xx answer.
RestAPIError(answer) ==
    [raise |-> "RestAPIError", status |-> IF answer = "not_found" THEN 404 ELSE 500]

\* str.upper() on the policy strings in use.
upper(s) ==
    CASE s = "always" -> "ALWAYS"
      [] s = "strict" -> "STRICT"
      [] s = "Strict" -> "STRICT"
      [] OTHER -> s

\* str.lower() on the strings in use.
lower(s) ==
    CASE s = "MAX" -> "max"
      [] s = "Max" -> "max"
      [] s = "MIN" -> "min"
      [] s = "Min" -> "min"
      [] s = "MyProj" -> "myproj"
      [] s = "Clicks" -> "clicks"
      [] OTHER -> s

\* json.dumps(v): the JSON document of v, a text different from v itself.
json_dumps(v) == [json |-> v]

\* json.loads(t): the value of a JSON document; any other text raises.
json_loads(t) == IF IsType(t, "json") THEN Return(t.json) ELSE Raise("ValueError")

\* humps.decamelize on one key: camelCase becomes snake_case, others stay.
decamelize_key(k) ==
    CASE k = "featureStoreId" -> "feature_store_id"
      [] k = "featureGroupId" -> "feature_group_id"
      [] k = "expectationSuiteName" -> "expectation_suite_name"
      [] k = "geCloudId" -> "ge_cloud_id"
      [] k = "dataAssetType" -> "data_asset_type"
      [] k = "runValidation" -> "run_validation"
      [] k = "validationIngestionPolicy" -> "validation_ingestion_policy"
      [] k = "expectationType" -> "expectation_type"
      [] k = "expectationId" -> "expectation_id"
      [] k = "myKey" -> "my_key"
      [] OTHER -> k

\* humps.decamelize on a flat dict of numbers, a set of <<key, value>> pairs.
decamelize_flat(d) == {<<decamelize_key(p[1]), p[2]>> : p \in d}

\* humps.decamelize recurses into nested dicts and lists: the dict of one rule.
decamelize_rule(d) ==
    [k2 \in {decamelize_key(k) : k \in DOMAIN d} |->
        LET k == CHOOSE k1 \in DOMAIN d : decamelize_key(k1) = k2
        IN  IF k \in {"meta", "kwargs"} THEN decamelize_flat(d[k]) ELSE d[k]]

\* humps.decamelize on a suite's dict: keys, and the nested rule dicts and meta.
\* A str (the JSON text of to_dict) and an object (a rule of to_dict) stay.
decamelize(d) ==
    [k2 \in {decamelize_key(k) : k \in DOMAIN d} |->
        LET k == CHOOSE k1 \in DOMAIN d : decamelize_key(k1) = k2
        IN  CASE k = "meta" /\ IsType(d[k], "dict") ->
                    [dict |-> decamelize_flat(d[k].dict)]
              [] k = "expectations" ->
                    [list |-> [i \in 1..Len(d[k].list) |->
                        IF IsType(d[k].list[i], "dict")
                        THEN [dict |-> decamelize_rule(d[k].list[i].dict)]
                        ELSE d[k].list[i]]]
              [] OTHER -> d[k]]

(***************************************************************************)
(* GeExpectation, the local rule type (hsfs/ge_expectation.py).            *)
(* A rule is [id, expectation_type, kwargs, meta].                         *)
(***************************************************************************)
\* Binding **kw to a parameter that has a default.
Arg(kw, k, default) == IF k \in DOMAIN kw THEN kw[k] ELSE default

\* GeExpectation(**kw): expectation_type, kwargs and meta are required.
GeExpectation(kw) ==
    IF ~ ({"expectation_type", "kwargs", "meta"} \subseteq DOMAIN kw)
    THEN Raise("TypeError")
    ELSE Return([id |-> Arg(kw, "id", None),
                 expectation_type |-> kw["expectation_type"],
                 kwargs |-> kw["kwargs"],
                 meta |-> kw["meta"]])

\* GeExpectation.to_json_dict(): camelCase keys.
ge_to_json_dict(r) ==
    [k \in {"id", "expectationType", "kwargs", "meta"} |->
        CASE k = "id" -> r.id
          [] k = "expectationType" -> r.expectation_type
          [] k = "kwargs" -> r.kwargs
          [] OTHER -> r.meta]

\* great_expectations' ExpectationConfiguration.to_json_dict(): its own keys.
native_to_json_dict(r) ==
    [k \in {"expectation_type", "kwargs", "meta"} |->
        CASE k = "expectation_type" -> r.expectation_type
          [] k = "kwargs" -> r.kwargs
          [] OTHER -> r.meta]

(***************************************************************************)
(* ExpectationSuite: conversions and the constructor.                      *)
(***************************************************************************)
\* _convert_expectation: one input to the local rule type, or TypeError.
convert_expectation(ge, e) ==
    IF ge /\ IsType(e, "native") THEN GeExpectation(native_to_json_dict(e.native))
    ELSE IF IsType(e, "ge") THEN Return(e.ge)
    ELSE IF IsType(e, "dict") THEN GeExpectation(e.dict)
    ELSE Raise("TypeError")

\* An expectations setter that stores the rules last to first.
expectations_setter_reversed(ge, v) ==
    IF IsType(v, "none") THEN Return(<<>>)
    ELSE IF IsType(v, "list")
    THEN LET n == Len(v.list)
             conv == [i \in 1..n |-> convert_expectation(ge, v.list[i])]
         IN  IF \E i \in 1..n : Raised(conv[i])
             THEN Raise("TypeError")
             ELSE Return([i \in 1..n |-> conv[n + 1 - i].ret])
    ELSE Raise("TypeError")

\* The expectations setter: the list it stores, or the exception it raises.
expectations_setter(ge, v) ==
    IF IsType(v, "none") THEN Return(<<>>)
    ELSE IF IsType(v, "list")
    THEN LET conv == [i \in 1..Len(v.list) |-> convert_expectation(ge, v.list[i])]
         IN  IF \E i \in 1..Len(v.list) : Raised(conv[i])
             THEN Raise("TypeError")
             ELSE Return([i \in 1..Len(v.list) |-> conv[i].ret])
    ELSE Raise("TypeError")

\* The meta setter's local part: a dict is kept, a str is parsed as JSON.
meta_setter(v) ==
    IF IsType(v, "dict") THEN Return(v)
    ELSE IF IsType(v, "str") THEN json_loads(v.str)
    ELSE Raise("ValueError")

IsDigits(t) == t \in {"0", "1", "2"}
int(t) == CASE t = "0" -> 0 [] t = "1" -> 1 [] OTHER -> 2

\* re.search(r"\/featurestores\/(\d+)\/featuregroups\/(\d+)\/expectationsuite*")
\* on an href given as its path segments: the first match, or None.
href_search(h) ==
    LET hits == {i \in 1..(Len(h) - 4) :
                    /\ h[i] = "featurestores" /\ IsDigits(h[i + 1])
                    /\ h[i + 2] = "featuregroups" /\ IsDigits(h[i + 3])
                    /\ h[i + 4] \in {"expectationsuit", "expectationsuite"}}
    IN  IF hits = {} THEN None
        ELSE LET i == CHOOSE j \in hits : \A l \in hits : j <= l
             IN  Some(<<int(h[i + 1]), int(h[i + 3])>>)

\* A parse that finds no identifiers in any href.
init_ids_from_href_blind(href) == Return([fs |-> None, fg |-> None])

\* _init_feature_store_and_feature_group_ids_from_href
init_ids_from_href(href) ==
    LET m == href_search(href)
    IN  IF m = None THEN Raise("AttributeError")
        ELSE Return([fs |-> Some(m[1][1]), fg |-> Some(m[1][2])])

ExpectationEngine(fs, fg, sid) ==
    Some([feature_store_id |-> fs, feature_group_id |-> fg, expectation_suite_id |-> sid])

ExpectationSuiteEngine(fs, fg) ==
    Some([feature_store_id |-> fs, feature_group_id |-> fg])

\* ExpectationSuite(**kw): the suite built, or the exception raised.
ExpectationSuite(ge, kw) ==
    IF ~ ({"expectation_suite_name", "expectations", "meta"} \subseteq DOMAIN kw)
    THEN Raise("TypeError")
    ELSE
    LET id == Arg(kw, "id", None)
        fs_arg == Arg(kw, "feature_store_id", None)
        fg_arg == Arg(kw, "feature_group_id", None)
        href == Arg(kw, "href", None)
        parents ==
            IF fs_arg # None /\ fg_arg # None THEN Return([fs |-> fs_arg, fg |-> fg_arg])
            ELSE IF href # None THEN init_ids_from_href(href[1])
            ELSE Return([fs |-> None, fg |-> None])
        exps == expectations_setter(ge, kw["expectations"])
        meta == meta_setter(kw["meta"])
    IN  IF Raised(parents) THEN parents
        ELSE IF Raised(exps) THEN exps
        ELSE IF Raised(meta) THEN meta
        ELSE IF Truthy(id) /\ (parents.ret.fs = None \/ parents.ret.fg = None)
        THEN Raise("AssertionError")
        ELSE Return(
            [id |-> id,
             expectation_suite_name |-> kw["expectation_suite_name"],
             ge_cloud_id |-> Arg(kw, "ge_cloud_id", None),
             data_asset_type |-> Arg(kw, "data_asset_type", None),
             run_validation |-> Arg(kw, "run_validation", TRUE),
             validation_ingestion_policy |->
                upper(Arg(kw, "validation_ingestion_policy", "always")),
             expectations |-> exps.ret,
             href |-> href,
             feature_store_id |-> parents.ret.fs,
             feature_group_id |-> parents.ret.fg,
             meta |-> meta.ret,
             expectation_engine |->
                IF Truthy(id)
                THEN ExpectationEngine(parents.ret.fs, parents.ret.fg, id)
                ELSE None,
             expectation_suite_engine |->
                IF Truthy(id)
                THEN ExpectationSuiteEngine(parents.ret.fs, parents.ret.fg)
                ELSE None])

\* to_dict(): the payload of a metadata update; meta as a JSON text, the rules
\* as objects.
to_dict(s) ==
    [k \in {"id", "featureStoreId", "featureGroupId", "expectationSuiteName",
            "expectations", "meta", "geCloudId", "dataAssetType", "runValidation",
            "validationIngestionPolicy"} |->
        CASE k = "id" -> s.id
          [] k = "featureStoreId" -> s.feature_store_id
          [] k = "featureGroupId" -> s.feature_group_id
          [] k = "expectationSuiteName" -> s.expectation_suite_name
          [] k = "expectations" ->
                [list |-> [i \in 1..Len(s.expectations) |-> [ge |-> s.expectations[i]]]]
          [] k = "meta" -> [str |-> json_dumps(s.meta)]
          [] k = "geCloudId" -> s.ge_cloud_id
          [] k = "dataAssetType" -> s.data_asset_type
          [] k = "runValidation" -> s.run_validation
          [] OTHER -> upper(s.validation_ingestion_policy)]

\* to_json_dict with the meta as JSON text, as to_dict has it.
to_json_dict_meta_as_text(s, decam) ==
    LET the_dict ==
        [k \in DOMAIN to_dict(s) |->
            CASE k = "expectations" ->
                    [list |-> [i \in 1..Len(s.expectations) |->
                        [dict |-> ge_to_json_dict(s.expectations[i])]]]
              [] OTHER -> to_dict(s)[k]]
    IN  IF decam THEN decamelize(the_dict) ELSE the_dict

\* to_json_dict(decamelize): meta as it is, the rules as their dicts.
to_json_dict(s, decam) ==
    LET the_dict ==
        [k \in {"id", "featureStoreId", "featureGroupId", "expectationSuiteName",
                "expectations", "meta", "geCloudId", "dataAssetType", "runValidation",
                "validationIngestionPolicy"} |->
            CASE k = "id" -> s.id
              [] k = "featureStoreId" -> s.feature_store_id
              [] k = "featureGroupId" -> s.feature_group_id
              [] k = "expectationSuiteName" -> s.expectation_suite_name
              [] k = "expectations" ->
                    [list |-> [i \in 1..Len(s.expectations) |->
                        [dict |-> ge_to_json_dict(s.expectations[i])]]]
              [] k = "meta" -> s.meta
              [] k = "geCloudId" -> s.ge_cloud_id
              [] k = "dataAssetType" -> s.data_asset_type
              [] k = "runValidation" -> s.run_validation
              [] OTHER -> upper(s.validation_ingestion_policy)]
    IN  IF decam THEN decamelize(the_dict) ELSE the_dict

(***************************************************************************)
(* The backend of a suite: the rule list of the suite on the server, as    *)
(* the rule-level manager (ExpectationEngine) reaches it.  Every request   *)
(* may also fail with a backend error of its own (the argument r).         *)
(***************************************************************************)
RuleIds(l) == {l[i].id[1] : i \in 1..Len(l)}
HasRule(l, rid) == rid # None /\ rid[1] \in RuleIds(l)

\* The id the server gives a new rule: the least one not in use.
FreshId(l) == CHOOSE n \in 1..(Len(l) + 1) : n \notin RuleIds(l) /\
                \A m \in 1..(Len(l) + 1) : m \notin RuleIds(l) => n <= m

Remove(l, rid) ==
    LET keep == {i \in 1..Len(l) : l[i].id # rid}
        F[i \in 0..Len(l)] ==
            IF i = 0 THEN <<>>
            ELSE IF i \in keep THEN Append(F[i - 1], l[i]) ELSE F[i - 1]
    IN  F[Len(l)]

Replace(l, r) == [i \in 1..Len(l) |-> IF l[i].id = r.id THEN r ELSE l[i]]

Request(kind, arg) == [kind |-> kind, arg |-> arg]

\* The answer to one request, given the server's state and the fault r.
Answer(r, found) ==
    IF r = "error" THEN "error" ELSE IF found THEN "ok" ELSE "not_found"

Responses == {"ok", "error"}

(***************************************************************************)
(* ExpectationSuite: the operations, one action per call.                  *)
(***************************************************************************)
Call(op, rq, out) ==
    /\ lastOp' = op
    /\ reqs' = rq
    /\ outcome' = out

\* A call that reached the backend, with the answers the backend has for its
\* first and for its second request.
Sent(op, first, second) ==
    [k \in DOMAIN op \cup {"first", "second"} |->
        CASE k = "first" -> first
          [] k = "second" -> second
          [] OTHER -> op[k]]

\* What a rule-level operation returns: the rule, as a native object when
\* ge_type is set (to_ge_type needs great_expectations).
Converted(r, ge_type) ==
    IF ~ge_type THEN Return([ge |-> r])
    ELSE IF has_ge THEN Return([native |-> r])
    ELSE Raise("ModuleNotFoundError")

\* The id setter.
set_id(v) ==
    /\ suite' = [suite EXCEPT !.id = v]
    /\ Call([op |-> "set_id"], <<>>, Return(None))
    /\ UNCHANGED <<has_ge, server, registry>>

\* _init_expectation_engine
init_expectation_engine(fs, fg) ==
    /\ IF Truthy(suite.id)
       THEN /\ suite' = [suite EXCEPT
                    !.expectation_engine = ExpectationEngine(fs, fg, suite.id)]
            /\ Call([op |-> "init_expectation_engine"], <<>>, Return(None))
       ELSE /\ suite' = suite
            /\ Call([op |-> "init_expectation_engine"], <<>>, Raise("ValueError"))
    /\ UNCHANGED <<has_ge, server, registry>>

\* _init_expectation_suite_engine
init_expectation_suite_engine(fs, fg) ==
    /\ IF Truthy(fg) /\ Truthy(fs)
       THEN /\ suite' = [suite EXCEPT
                    !.expectation_suite_engine = ExpectationSuiteEngine(fs, fg)]
            /\ Call([op |-> "init_expectation_suite_engine"], <<>>, Return(None))
       ELSE IF Truthy(suite.feature_group_id) /\ Truthy(suite.feature_store_id)
       THEN /\ suite' = [suite EXCEPT
                    !.expectation_suite_engine =
                        ExpectationSuiteEngine(suite.feature_store_id,
                                               suite.feature_group_id)]
            /\ Call([op |-> "init_expectation_suite_engine"], <<>>, Return(None))
       ELSE /\ suite' = suite
            /\ Call([op |-> "init_expectation_suite_engine"], <<>>,
                    Raise("ValueError"))
    /\ UNCHANGED <<has_ge, server, registry>>

\* get_expectation
get_expectation(eid, ge_type, r) ==
    /\ IF Truthy(suite.id) /\ suite.expectation_engine # None
       THEN LET a == Answer(r, HasRule(server, Some(eid)))
                rq == <<Request("get", Some(eid))>>
                found == CHOOSE i \in 1..Len(server) : server[i].id = Some(eid)
            IN  IF a = "ok"
                THEN Call([op |-> "get_expectation"], rq,
                          Converted(server[found], ge_type))
                ELSE Call([op |-> "get_expectation"], rq, RestAPIError(a))
       ELSE Call([op |-> "get_expectation"], <<>>, Raise("FeatureStoreException"))
    /\ UNCHANGED <<suite, has_ge, server, registry>>

\* A rule-level mutation that trusts its own request and fetches nothing.
no_refetch(op, first, out, srv, r2) ==
    /\ suite' = suite
    /\ Call(op, <<first>>, out)

\* A fetch that is sent again when it fails.
refetch_again(op, first, out, srv, r2) ==
    LET set == expectations_setter(has_ge,
                    [list |-> [i \in 1..Len(srv) |-> [ge |-> srv[i]]]])
    IN  IF r2 = "error"
        THEN /\ suite' = suite
             /\ Call(op, <<first, Request("get_all", None), Request("get_all", None)>>,
                     RestAPIError(r2))
        ELSE /\ suite' = [suite EXCEPT !.expectations = set.ret]
             /\ Call(op, <<first, Request("get_all", None)>>, out)

\* self.expectations = self._expectation_engine.get_expectations_by_suite_id():
\* the second request of a rule-level mutation, and the assignment of its answer.
refetch(op, first, out, srv, r2) ==
    LET rq == <<first, Request("get_all", None)>>
        set == expectations_setter(has_ge,
                    [list |-> [i \in 1..Len(srv) |-> [ge |-> srv[i]]]])
    IN  IF r2 = "error"
        THEN /\ suite' = suite
             /\ Call(op, rq, RestAPIError(r2))
        ELSE /\ suite' = [suite EXCEPT !.expectations = set.ret]
             /\ Call(op, rq, out)

\* add_expectation
add_expectation(e, ge_type, r1, r2, cap) ==
    LET op == [op |-> "add_expectation"]
        conv == convert_expectation(has_ge, e)
    IN
    /\ IF ~Truthy(suite.id)
       THEN /\ Call(op, <<>>, Raise("FeatureStoreException"))
            /\ UNCHANGED <<suite, server>>
       ELSE IF Raised(conv)
       THEN /\ Call(op, <<>>, conv)
            /\ UNCHANGED <<suite, server>>
       ELSE IF suite.expectation_engine = None
       THEN /\ Call(op, <<>>, Raise("AttributeError"))
            /\ UNCHANGED <<suite, server>>
       ELSE IF r1 = "error"
       THEN /\ Call(Sent(op, r1, r2), <<Request("create", conv.ret)>>, RestAPIError(r1))
            /\ UNCHANGED <<suite, server>>
       ELSE LET created == [conv.ret EXCEPT !.id = Some(FreshId(server))]
            IN  /\ Len(server) < cap
                /\ server' = Append(server, created)
                /\ refetch(Sent(op, r1, r2), Request("create", conv.ret),
                           Converted(created, ge_type), server', r2)
    /\ UNCHANGED <<has_ge, registry>>

\* ExpectationEngine.check_for_id: the rule carries an id, in its id field or
\* as expectationId in its meta.
\* A check that takes the first rule for one that names none.
rule_id_assumed(rule) == IF Truthy(rule.id) THEN rule.id ELSE Some(1)

rule_id(rule) ==
    IF Truthy(rule.id) THEN rule.id
    ELSE IF \E p \in rule.meta : p[1] = "expectationId"
    THEN Some((CHOOSE p \in rule.meta : p[1] = "expectationId")[2])
    ELSE None

\* replace_expectation
replace_expectation(e, ge_type, r1, r2) ==
    LET op == [op |-> "replace_expectation", arg |-> e]
        conv == convert_expectation(has_ge, e)
    IN
    /\ IF ~Truthy(suite.id)
       THEN /\ Call(op, <<>>, Raise("FeatureStoreException"))
            /\ UNCHANGED <<suite, server>>
       ELSE IF Raised(conv)
       THEN /\ Call(op, <<>>, conv)
            /\ UNCHANGED <<suite, server>>
       ELSE IF suite.expectation_engine = None
       THEN /\ Call(op, <<>>, Raise("AttributeError"))
            /\ UNCHANGED <<suite, server>>
       ELSE IF rule_id(conv.ret) = None
       THEN /\ Call(op, <<>>, Raise("ValueError"))
            /\ UNCHANGED <<suite, server>>
       ELSE LET rule == [conv.ret EXCEPT !.id = rule_id(conv.ret)]
                a == Answer(r1, HasRule(server, rule.id))
            IN  IF a # "ok"
                THEN /\ Call(Sent(op, a, r2), <<Request("update", rule)>>,
                             RestAPIError(a))
                     /\ UNCHANGED <<suite, server>>
                ELSE /\ server' = Replace(server, rule)
                     /\ refetch(Sent(op, a, r2), Request("update", rule),
                                Converted(rule, ge_type), server', r2)
    /\ UNCHANGED <<has_ge, registry>>

\* remove_expectation that tests the engine where the code tests the id.
remove_expectation_by_engine(eid, r1, r2) ==
    LET op == [op |-> "remove_expectation"]
        a == Answer(r1, HasRule(server, eid))
    IN
    /\ IF suite.expectation_engine = None
       THEN /\ Call(op, <<>>, Raise("AttributeError"))
            /\ UNCHANGED <<suite, server>>
       ELSE IF a # "ok"
       THEN /\ Call(Sent(op, a, r2), <<Request("delete", eid)>>, RestAPIError(a))
            /\ UNCHANGED <<suite, server>>
       ELSE /\ server' = Remove(server, eid)
            /\ refetch(Sent(op, a, r2), Request("delete", eid), Return(None), server', r2)
    /\ UNCHANGED <<has_ge, registry>>

\* remove_expectation that fetches the list also after a failed delete.
remove_expectation_resyncing(eid, r1, r2) ==
    LET op == [op |-> "remove_expectation"]
        a == Answer(r1, HasRule(server, eid))
    IN
    /\ IF ~Truthy(suite.id)
       THEN /\ Call(op, <<>>, Raise("FeatureStoreException"))
            /\ UNCHANGED <<suite, server>>
       ELSE IF suite.expectation_engine = None
       THEN /\ Call(op, <<>>, Raise("AttributeError"))
            /\ UNCHANGED <<suite, server>>
       ELSE IF a # "ok"
       THEN /\ server' = server
            /\ refetch(Sent(op, a, r2), Request("delete", eid), RestAPIError(a),
                       server, r2)
       ELSE /\ server' = Remove(server, eid)
            /\ refetch(Sent(op, a, r2), Request("delete", eid), Return(None), server', r2)
    /\ UNCHANGED <<has_ge, registry>>

\* remove_expectation
remove_expectation(eid, r1, r2) ==
    LET op == [op |-> "remove_expectation"]
        a == Answer(r1, HasRule(server, eid))
    IN
    /\ IF ~Truthy(suite.id)
       THEN /\ Call(op, <<>>, Raise("FeatureStoreException"))
            /\ UNCHANGED <<suite, server>>
       ELSE IF suite.expectation_engine = None
       THEN /\ Call(op, <<>>, Raise("AttributeError"))
            /\ UNCHANGED <<suite, server>>
       ELSE IF a # "ok"
       THEN /\ Call(Sent(op, a, r2), <<Request("delete", eid)>>, RestAPIError(a))
            /\ UNCHANGED <<suite, server>>
       ELSE /\ server' = Remove(server, eid)
            /\ refetch(Sent(op, a, r2), Request("delete", eid), Return(None), server', r2)
    /\ UNCHANGED <<has_ge, registry>>

(***************************************************************************)
(* ExpectationSuite: the property setters.                                 *)
(***************************************************************************)
\* self._expectation_suite_engine.update_metadata_from_fields(
\*     **humps.decamelize(self.to_dict())): the request sent for the suite s.
update_metadata(op, s, r) ==
    IF s.expectation_suite_engine = None
    THEN Call(op, <<>>, Raise("AttributeError"))
    ELSE Call(op, <<Request("update_metadata", decamelize(to_dict(s)))>>,
              IF r = "ok" THEN Return(None) ELSE RestAPIError(r))

\* The setters of expectation_suite_name, run_validation and
\* validation_ingestion_policy: the field, then the update if the id is set.
set_and_update(op, s, r) ==
    /\ suite' = s
    /\ IF Truthy(s.id)
       THEN update_metadata(op, s, r)
       ELSE Call(op, <<>>, Return(None))
    /\ UNCHANGED <<has_ge, server, registry>>

set_expectation_suite_name(v, r) ==
    set_and_update([op |-> "set_expectation_suite_name", value |-> v],
                   [suite EXCEPT !.expectation_suite_name = v], r)

\* A run_validation setter that keeps the value to itself.
set_run_validation_locally(v, r) ==
    /\ suite' = [suite EXCEPT !.run_validation = v]
    /\ Call([op |-> "set_run_validation", value |-> v], <<>>, Return(None))
    /\ UNCHANGED <<has_ge, server, registry>>

set_run_validation(v, r) ==
    set_and_update([op |-> "set_run_validation", value |-> v],
                   [suite EXCEPT !.run_validation = v], r)

set_validation_ingestion_policy(v, r) ==
    set_and_update([op |-> "set_validation_ingestion_policy", value |-> v],
                   [suite EXCEPT !.validation_ingestion_policy = upper(v)], r)

\* The meta setter; after construction the object has _expectation_suite_engine.
set_meta(v, r) ==
    LET op == [op |-> "set_meta", value |-> v]
        m == meta_setter(v)
    IN  IF Raised(m)
        THEN /\ Call(op, <<>>, m)
             /\ UNCHANGED <<suite, has_ge, server, registry>>
        ELSE set_and_update(op, [suite EXCEPT !.meta = m.ret], r)

\* The data_asset_type setter: the field only.
set_data_asset_type(v) ==
    /\ suite' = [suite EXCEPT !.data_asset_type = v]
    /\ Call([op |-> "set_data_asset_type"], <<>>, Return(None))
    /\ UNCHANGED <<has_ge, server, registry>>

\* The setter written for ge_cloud_id is defined under the name ge_coud_id:
\* the property ge_cloud_id has no setter, and assigning to it raises.
set_ge_cloud_id(v) ==
    /\ Call([op |-> "set_ge_cloud_id"], <<>>, Raise("AttributeError"))
    /\ UNCHANGED <<suite, has_ge, server, registry>>

set_ge_coud_id(v) ==
    /\ suite' = [suite EXCEPT !.ge_cloud_id = v]
    /\ Call([op |-> "set_ge_coud_id"], <<>>, Return(None))
    /\ UNCHANGED <<has_ge, server, registry>>

\* The expectations setter.
set_expectations(v) ==
    LET set == expectations_setter(has_ge, v)
    IN  /\ IF Raised(set)
           THEN /\ suite' = suite
                /\ Call([op |-> "set_expectations", value |-> v], <<>>, set)
           ELSE /\ suite' = [suite EXCEPT !.expectations = set.ret]
                /\ Call([op |-> "set_expectations", value |-> v], <<>>, Return(None))
        /\ UNCHANGED <<has_ge, server, registry>>

(***************************************************************************)
(* The inputs of the suite's operations.                                   *)
(***************************************************************************)
OptIds == {None, Some(0), Some(1)}
ParentIds == {None, Some(1)}
\* The arguments of the two _init_..._engine methods.
EngineArgs == {<<None, None>>, <<Some(1), Some(1)>>}
GoodHref == <<"project", "9", "featurestores", "1", "featuregroups", "1",
              "expectationsuite">>
BadHref == <<"project", "9", "featurestores", "1", "expectationsuite">>

NoDict == {}
Rule(id, type, meta) ==
    [id |-> id, expectation_type |-> type, kwargs |-> {<<"column", 1>>}, meta |-> meta]

\* Arguments of add_expectation: a local rule, a dict with the constructor's
\* keys, a dict with camelCase keys, a great_expectations object, an
\* unsupported value.
AddInputs ==
    {[ge |-> Rule(None, "t1", NoDict)],
     [dict |-> [expectation_type |-> "t1", kwargs |-> {<<"column", 1>>}, meta |-> NoDict]],
     [dict |-> [expectationType |-> "t1", kwargs |-> {<<"column", 1>>}, meta |-> NoDict]],
     [native |-> Rule(None, "t1", NoDict)],
     [other |-> 0]}

\* Arguments of replace_expectation: a rule with its id, a rule with the id in
\* its meta only, a rule without id.
ReplaceInputs ==
    {[ge |-> Rule(Some(1), "t2", {<<"expectationId", 1>>})],
     [ge |-> Rule(None, "t2", {<<"expectationId", 1>>})],
     [ge |-> Rule(None, "t2", NoDict)],
     [other |-> 0]}

\* A great_expectations object exists only where the package is installed.
Exists(e) == IsType(e, "native") => has_ge

ListInputs ==
    {[none |-> TRUE], [other |-> 0], [list |-> <<>>],
     [list |-> <<[ge |-> Rule(None, "t1", NoDict)]>>],
     [list |-> <<[native |-> Rule(None, "t1", NoDict)]>>],
     [list |-> <<[ge |-> Rule(None, "t1", NoDict)], [other |-> 0]>>]}

ListExists(v) == IsType(v, "list") => \A i \in 1..Len(v.list) : Exists(v.list[i])

\* Lists with maps in them: one with the constructor's keys and an id, one
\* with camelCase keys, and a map followed by a great_expectations object.
RuleLists ==
    ListInputs \cup
    {[list |-> <<[dict |-> [id |-> Some(2), expectation_type |-> "t2",
                            kwargs |-> {<<"column", 1>>}, meta |-> NoDict]]>>],
     [list |-> <<[dict |-> [expectationType |-> "t1", kwargs |-> {<<"column", 1>>},
                            meta |-> NoDict]]>>],
     [list |-> <<[dict |-> [expectation_type |-> "t2", kwargs |-> {<<"column", 1>>},
                            meta |-> NoDict]],
                 [native |-> Rule(None, "t1", NoDict)]>>]}

\* The faults of the backend during one call of two requests: none, the first
\* request fails, the second fails.
Faults == {<<"ok", "ok">>, <<"error", "ok">>, <<"ok", "error">>}

(***************************************************************************)
(* The backend of the model registry: registry[k] is None when the model   *)
(* k is absent, else Some(tags), tags[t] being None or Some(JSON text).    *)
(***************************************************************************)
ProjectId == "p119"
RegistryIds == {"r1"}
ModelNames == {"m"}
Versions == 1..MaxVersion
TagNames == {"a", "b"}
\* Tag values a caller passes: a str and a dict.

\* name + "_" + str(version): the last path segment, and the model's id.
model_key(name, version) == <<name, "_", version>>
ModelKeys == {model_key(n, v) : n \in ModelNames, v \in Versions}

NoTags == [t \in TagNames |-> None]
EmptyRegistry == [k \in ModelKeys |-> None]

\* A Model metadata object: the fields the API reads.
ModelInstance(name, version, rid) ==
    [id |-> model_key(name, version), name |-> name, version |-> version,
     model_registry_id |-> rid]
ModelInstances ==
    {ModelInstance(n, v, rid) : n \in ModelNames, v \in Versions, rid \in RegistryIds}

\* The JSON of one model in a response.
model_json(k, rid) ==
    [id |-> k, name |-> k[1], version |-> k[3], modelRegistryId |-> rid]

\* Model.from_response_json on the JSON of one model.
model_from_response_json(j) ==
    [id |-> j.id, name |-> j.name, version |-> j.version,
     model_registry_id |-> j.modelRegistryId,
     shared_registry_project_name |-> None]

\* str(x) in a path segment.
str(x) == [str |-> x]

HttpRequest(method, path, query, headers, data) ==
    [method |-> method, path |-> path, query |-> query, headers |-> headers,
     data |-> data]

NoQuery == [none |-> TRUE]
NoHeaders == [none |-> TRUE]
NoData == [none |-> TRUE]
JsonHeaders == [content_type |-> "application/json"]

\* decorators.catch_not_found(..., fallback_return): a not-found backend
\* error becomes the fallback, everything else passes.
catch_not_found(out, fallback) ==
    IF Raised(out) /\ out.raise = "RestAPIError" /\ out.status = 404
    THEN Return(fallback)
    ELSE out

(***************************************************************************)
(* ModelApi: one action per method.                                        *)
(***************************************************************************)
\* put
put(m, query_params, r) ==
    LET path == <<"project", ProjectId, "modelregistries", str(m.model_registry_id),
                  "models", model_key(m.name, m.version)>>
        rq == HttpRequest("PUT", path, query_params, JsonHeaders, json_dumps(m))
        k == model_key(m.name, m.version)
    IN  /\ IF r = "ok"
           THEN /\ registry' = [registry EXCEPT ![k] =
                        IF registry[k] = None THEN Some(NoTags) ELSE registry[k]]
                /\ Call([op |-> "put", model |-> m, answer |-> r], <<rq>>,
                        Return(model_from_response_json(
                                    model_json(k, m.model_registry_id))))
           ELSE /\ registry' = registry
                /\ Call([op |-> "put", model |-> m, answer |-> r], <<rq>>,
                        RestAPIError(r))
        /\ UNCHANGED <<suite, has_ge, server>>

\* A path that addresses the first version whatever version is asked for.
get_path_first_version(name, version, model_registry_id) ==
    <<"project", ProjectId, "modelregistries", model_registry_id,
      "models", model_key(name, 1)>>

\* The path of get: the model is addressed as {name}_{version}.
get_path(name, version, model_registry_id) ==
    <<"project", ProjectId, "modelregistries", model_registry_id,
      "models", model_key(name, version)>>

\* get, under catch_not_found(fallback_return=None)
get(name, version, model_registry_id, shared, r) ==
    LET path == get_path(name, version, model_registry_id)
        rq == HttpRequest("GET", path, [expand |-> "trainingdatasets"],
                          NoHeaders, NoData)
        k == path[6]
        a == Answer(r, k \in ModelKeys /\ registry[k] # None)
        body == IF a = "ok"
                THEN Return(Some([model_from_response_json(
                                    model_json(k, model_registry_id))
                                  EXCEPT !.shared_registry_project_name = shared]))
                ELSE RestAPIError(a)
    IN  /\ Call([op |-> "get", name |-> name, version |-> version, answer |-> a],
                <<rq>>, catch_not_found(body, None))
        /\ UNCHANGED <<suite, has_ge, server, registry>>

\* A query with the two directions swapped.
models_query_swapped(name, metric, direction) ==
    LET base == [expand |-> "trainingdatasets", filter_by |-> <<<<"name_eq:", name>>>>]
        dir == IF lower(direction[1]) = "max" THEN "asc"
               ELSE IF lower(direction[1]) = "min" THEN "desc"
               ELSE direction[1]
    IN  IF metric # None /\ direction # None
        THEN [expand |-> base.expand, filter_by |-> base.filter_by,
              sort_by |-> <<metric[1], ":", dir>>, limit |-> "1"]
        ELSE base

\* The query of get_models.
models_query(name, metric, direction) ==
    LET base == [expand |-> "trainingdatasets", filter_by |-> <<<<"name_eq:", name>>>>]
        dir == IF lower(direction[1]) = "max" THEN "desc"
               ELSE IF lower(direction[1]) = "min" THEN "asc"
               ELSE direction[1]
    IN  IF metric # None /\ direction # None
        THEN [expand |-> base.expand, filter_by |-> base.filter_by,
              sort_by |-> <<metric[1], ":", dir>>, limit |-> "1"]
        ELSE base

\* get_models; an empty answer decodes to a list or to nothing (count == 0),
\* and iterating over nothing raises.
get_models(name, model_registry_id, shared, metric, direction, r, empty_list) ==
    LET path == <<"project", ProjectId, "modelregistries", model_registry_id, "models">>
        rq == HttpRequest("GET", path, models_query(name, metric, direction),
                          NoHeaders, NoData)
        hits == {k \in ModelKeys : k[1] = name /\ registry[k] # None}
        found == IF metric # None /\ direction # None /\ hits # {}
                 THEN {CHOOSE k \in hits : TRUE}
                 ELSE hits
        op == [op |-> "get_models", name |-> name, metric |-> metric,
               direction |-> direction]
    IN  /\ IF r # "ok" THEN Call(op, <<rq>>, RestAPIError(r))
           ELSE IF found = {} /\ ~empty_list THEN Call(op, <<rq>>, Raise("TypeError"))
           ELSE Call(op, <<rq>>,
                     Return({[model_from_response_json(model_json(k, model_registry_id))
                              EXCEPT !.shared_registry_project_name = shared]
                             : k \in found}))
        /\ UNCHANGED <<suite, has_ge, server, registry>>

\* A delete that takes a not-found answer for a success.
delete_quietly(m, r) ==
    LET path == <<"project", ProjectId, "modelregistries", str(m.model_registry_id),
                  "models", m.id>>
        rq == HttpRequest("DELETE", path, NoQuery, NoHeaders, NoData)
        a == Answer(r, registry[m.id] # None)
    IN  /\ registry' = [registry EXCEPT ![m.id] = IF a = "ok" THEN None ELSE @]
        /\ Call([op |-> "delete", model |-> m, answer |-> a], <<rq>>,
                catch_not_found(IF a = "ok" THEN Return(None) ELSE RestAPIError(a),
                                None))
        /\ UNCHANGED <<suite, has_ge, server>>

\* delete
delete(m, r) ==
    LET path == <<"project", ProjectId, "modelregistries", str(m.model_registry_id),
                  "models", m.id>>
        rq == HttpRequest("DELETE", path, NoQuery, NoHeaders, NoData)
        a == Answer(r, registry[m.id] # None)
    IN  /\ IF a = "ok"
           THEN /\ registry' = [registry EXCEPT ![m.id] = None]
                /\ Call([op |-> "delete", model |-> m, answer |-> a], <<rq>>,
                        Return(None))
           ELSE /\ registry' = registry
                /\ Call([op |-> "delete", model |-> m, answer |-> a], <<rq>>,
                        RestAPIError(a))
        /\ UNCHANGED <<suite, has_ge, server>>

tag_path(m) ==
    <<"project", ProjectId, "modelregistries", str(m.model_registry_id),
      "models", m.id, "tags">>

\* A body that sends a str as it is and serializes only structured values.
tag_data_str_as_is(value) ==
    IF IsType(value, "str") THEN value.str ELSE json_dumps(value)

\* The body set_tag sends for a value.
tag_data(value) == json_dumps(value)

\* set_tag
set_tag(m, name, value, r) ==
    LET rq == HttpRequest("PUT", Append(tag_path(m), name), NoQuery, JsonHeaders,
                          tag_data(value))
        a == Answer(r, registry[m.id] # None)
        op == [op |-> "set_tag", model |-> m, name |-> name, value |-> value,
               answer |-> a]
    IN  /\ IF a = "ok"
           THEN /\ registry' = [registry EXCEPT ![m.id] =
                        Some([registry[m.id][1] EXCEPT ![name] = Some(rq.data)])]
                /\ Call(op, <<rq>>, Return(None))
           ELSE /\ registry' = registry
                /\ Call(op, <<rq>>, RestAPIError(a))
        /\ UNCHANGED <<suite, has_ge, server>>

\* delete_tag
delete_tag(m, name, r) ==
    LET rq == HttpRequest("DELETE", Append(tag_path(m), name), NoQuery, NoHeaders,
                          NoData)
        a == Answer(r, registry[m.id] # None /\ registry[m.id][1][name] # None)
        op == [op |-> "delete_tag", model |-> m, name |-> name, answer |-> a]
    IN  /\ IF a = "ok"
           THEN /\ registry' = [registry EXCEPT ![m.id] =
                        Some([registry[m.id][1] EXCEPT ![name] = None])]
                /\ Call(op, <<rq>>, Return(None))
           ELSE /\ registry' = registry
                /\ Call(op, <<rq>>, RestAPIError(a))
        /\ UNCHANGED <<suite, has_ge, server>>

\* Tag.from_response_json: the tags of an answer, as <<name, value>> pairs.
tag_from_response_json(tags) ==
    {<<t, tags[t][1]>> : t \in {n \in TagNames : tags[n] # None}}

\* {tag._name: json.loads(tag._value) for tag in ...}: the map get_tags builds.
decode_tags(items) ==
    IF \E p \in items : Raised(json_loads(p[2]))
    THEN Raise("ValueError")
    ELSE Return([t \in {p[1] : p \in items} |->
                    json_loads((CHOOSE p \in items : p[1] = t)[2]).ret])

\* get_tags, under catch_not_found(fallback_return={})
get_tags(m, r) ==
    LET rq == HttpRequest("GET", tag_path(m), NoQuery, NoHeaders, NoData)
        a == Answer(r, registry[m.id] # None)
        body == IF a = "ok"
                THEN decode_tags(tag_from_response_json(registry[m.id][1]))
                ELSE RestAPIError(a)
    IN  /\ Call([op |-> "get_tags", model |-> m, answer |-> a], <<rq>>,
                catch_not_found(body, <<>>))
        /\ UNCHANGED <<suite, has_ge, server, registry>>

\* get_tag, under catch_not_found(fallback_return=None)
get_tag(m, name, r) ==
    LET rq == HttpRequest("GET", Append(tag_path(m), name), NoQuery, NoHeaders, NoData)
        a == Answer(r, registry[m.id] # None /\ registry[m.id][1][name] # None)
        body == IF a = "ok"
                THEN Return(Some(registry[m.id][1][name][1]))
                ELSE RestAPIError(a)
    IN  /\ Call([op |-> "get_tag", model |-> m, name |-> name, answer |-> a], <<rq>>,
                catch_not_found(body, None))
        /\ UNCHANGED <<suite, has_ge, server, registry>>

\* The levels of the provenance graph the two lookups ask for.
FeatureViewUpstreamLvls == 2
TrainingDatasetUpstreamLvls == 1
DownstreamLvls == 0

provenance_path(m) ==
    <<"project", ProjectId, "modelregistries", str(m.model_registry_id),
      "models", m.id, "provenance", "links">>

provenance_query(upstream) ==
    [expand |-> "provenance_artifacts", upstreamLvls |-> upstream,
     downstreamLvls |-> DownstreamLvls]

\* explicit_provenance.Links.from_response_json(links_json, direction, type):
\* the artifacts of the answer in that direction and of that type, each with
\* its marking (accessible, deleted, inaccessible).
links_from_response_json(graph, direction, type) ==
    [links |-> {a \in graph : a.direction = direction /\ a.type = type}]

\* Links.is_empty
is_empty(l) == l.links = {}

\* A lookup that returns the link collection it built, empty or not.
provenance_result_always(l) == Some(l)

\* if not links.is_empty(): return links  (else the method returns None)
provenance_result(l) == IF ~is_empty(l) THEN Some(l) ELSE None

\* get_feature_view_provenance and get_training_dataset_provenance: graph is
\* the provenance graph the backend answers with.
get_provenance(name, m, upstream, type, r, graph) ==
    LET rq == HttpRequest("GET", provenance_path(m), provenance_query(upstream),
                          NoHeaders, NoData)
        a == Answer(r, registry[m.id] # None)
        op == [op |-> name, model |-> m, answer |-> a, graph |-> graph]
    IN  /\ IF a = "ok"
           THEN Call(op, <<rq>>,
                     Return(provenance_result(
                                links_from_response_json(graph, "upstream", type))))
           ELSE Call(op, <<rq>>, RestAPIError(a))
        /\ UNCHANGED <<suite, has_ge, server, registry>>

get_feature_view_provenance(m, r, graph) ==
    get_provenance("get_feature_view_provenance", m, FeatureViewUpstreamLvls,
                   "feature_view", r, graph)

get_training_dataset_provenance(m, r, graph) ==
    get_provenance("get_training_dataset_provenance", m, TrainingDatasetUpstreamLvls,
                   "training_dataset", r, graph)

(***************************************************************************)
(* The inputs of the model registry's operations.                          *)
(***************************************************************************)
Metrics == {None, Some("accuracy")}
Directions == {None, Some("max"), Some("min"), Some("MAX"), Some("up")}
SharedProjects == {None, Some("shared")}
\* The tags a caller attaches: a text under one name, a map under the other.
TagInputs == {<<"a", [str |-> [text |-> "x"]]>>, <<"b", [dict |-> {<<"k", 1>>}]>>}
\* The provenance graphs a backend answers with: no parent, a deleted feature
\* view, an inaccessible training dataset, both kinds of parent.
Artifact(type, marking) == [direction |-> "upstream", type |-> type, marking |-> marking]
Graphs ==
    {{},
     {Artifact("feature_view", "deleted")},
     {Artifact("training_dataset", "inaccessible")},
     {Artifact("feature_view", "accessible"), Artifact("training_dataset", "accessible")}}
\* The answers to a listing: served (an empty one as a list, or as nothing) or failed.
ModelsAnswers == {<<"ok", TRUE>>, <<"ok", FALSE>>, <<"error", TRUE>>}

(***************************************************************************)
(* OpenSearchApi: one action per method.  The session (external or not),   *)
(* the cluster variable and the answers of the backend are inputs.         *)
(***************************************************************************)
OpenSearchPort == 9200

\* f"https://{host}:9200", and what furl reads back from it.
Url(host) == <<"https://", host, ":", OpenSearchPort>>
furl_host(url) == url[2]
furl_port(url) == url[4]

\* VariableApi: a lookup is one request; it returns the variable's value, or
\* fails with the backend's error or with an error of its own.
variable_lookup(name, value, r) ==
    [reqs |-> <<Request("variable", name)>>,
     out |-> CASE r = "ok" -> Return(value)
               [] r = "error" -> RestAPIError(r)
               [] OTHER -> Raise("FeatureStoreException")]

\* A url resolution that takes the internal domain as it comes, empty or not.
opensearch_url_unchecked(external, domain, r) ==
    LET v == variable_lookup(IF external THEN "loadbalancer_external_domain"
                             ELSE "service_discovery_domain", domain, r)
    IN  IF Raised(v.out) THEN v
        ELSE IF external THEN [reqs |-> v.reqs, out |-> Return(Url(<<v.out.ret>>))]
        ELSE [reqs |-> v.reqs,
              out |-> Return(Url(<<"rest.elastic.service.", v.out.ret>>))]

\* _get_opensearch_url: the requests sent and the outcome.
opensearch_url(external, domain, r) ==
    IF external
    THEN LET v == variable_lookup("loadbalancer_external_domain", domain, r)
         IN  IF Raised(v.out) THEN v
             ELSE [reqs |-> v.reqs, out |-> Return(Url(<<v.out.ret>>))]
    ELSE LET v == variable_lookup("service_discovery_domain", domain, r)
         IN  IF Raised(v.out) THEN v
             ELSE IF v.out.ret = ""
             THEN [reqs |-> v.reqs, out |-> Raise("FeatureStoreException")]
             ELSE [reqs |-> v.reqs,
                   out |-> Return(Url(<<"rest.elastic.service.", v.out.ret>>))]

\* _get_authorization_token: one GET on elastic/jwt/{project_id}; tk is the
\* backend's answer, a token or an error.
authorization_token(tk) ==
    [reqs |-> <<HttpRequest("GET", <<"elastic", "jwt", ProjectId>>, NoQuery,
                            JsonHeaders, NoData)>>,
     out |-> IF tk = None THEN RestAPIError("error") ELSE Return(tk[1])]

\* client.get_instance()._get_ca_chain_path()
CaChainPath == "ca_chain.pem"

\* The map get_default_py_config returns for a url and a token.
py_config(url, token) ==
    [hosts |-> <<[host |-> furl_host(url), port |-> furl_port(url)]>>,
     http_compress |-> FALSE,
     headers |-> [Authorization |-> token],
     use_ssl |-> TRUE,
     verify_certs |-> TRUE,
     ssl_assert_hostname |-> FALSE,
     ca_certs |-> CaChainPath]

get_opensearch_url(external, domain, r) ==
    LET u == opensearch_url(external, domain, r)
    IN  /\ Call([op |-> "get_opensearch_url", external |-> external,
                 domain |-> domain, lookup |-> r], u.reqs, u.out)
        /\ UNCHANGED <<suite, has_ge, server, registry>>

get_authorization_token(tk) ==
    LET t == authorization_token(tk)
    IN  /\ Call([op |-> "get_authorization_token", token |-> tk], t.reqs, t.out)
        /\ UNCHANGED <<suite, has_ge, server, registry>>

\* get_default_py_config: the url first, then the token, then the map.
get_default_py_config(external, domain, r, tk) ==
    LET u == opensearch_url(external, domain, r)
        t == authorization_token(tk)
        op == [op |-> "get_default_py_config", external |-> external,
               domain |-> domain, lookup |-> r, token |-> tk]
    IN  /\ IF Raised(u.out) THEN Call(op, u.reqs, u.out)
           ELSE IF Raised(t.out) THEN Call(op, u.reqs \o t.reqs, t.out)
           ELSE Call(op, u.reqs \o t.reqs, Return(py_config(u.out.ret, t.out.ret)))
        /\ UNCHANGED <<suite, has_ge, server, registry>>

\* get_project_index: (project_name + "_" + index).lower()
get_project_index(project_name, index) ==
    /\ Call([op |-> "get_project_index", project |-> project_name, index |-> index],
            <<>>, Return(<<lower(project_name), "_", lower(index)>>))
    /\ UNCHANGED <<suite, has_ge, server, registry>>

Domains == {"", "hops.site", "cluster.local", "consul"}
LookupAnswers == {"ok", "error", "refused"}
TokenAnswers == {None, Some("jwt1"), Some("jwt2")}
ProjectNames == {"MyProj", "demo"}
IndexNames == {"Clicks", "logs", "metrics"}

(***************************************************************************)
(* Specifications.                                                         *)
(***************************************************************************)
\* The caller has made no call yet.
NoCall ==
    /\ lastOp = [op |-> "init"]
    /\ reqs = <<>>
    /\ outcome = Return(None)

\* The keyword arguments a suite is built from.
SuiteKw(id, fs, fg, href, exps) ==
    [expectation_suite_name |-> "n1", expectations |-> exps,
     meta |-> [dict |-> {<<"note", 1>>}], id |-> id, feature_store_id |-> fs,
     feature_group_id |-> fg, href |-> href]

\* Spec: one suite, built by the constructor from a server response (attached,
\* its rules those of the server) or by the caller (unattached), then any
\* sequence of operations and setter calls.
Init ==
    /\ has_ge = TRUE
    /\ \E id \in OptIds, p \in ParentIds,
          rules \in {<<>>, <<Rule(Some(1), "t1", NoDict)>>} :
        LET built == ExpectationSuite(has_ge,
                        SuiteKw(id, p, p, None,
                                [list |-> [i \in 1..Len(rules) |-> [ge |-> rules[i]]]]))
        IN  /\ Returned(built)
            /\ Truthy(id) \/ rules = <<>>
            /\ suite = built.ret
            /\ server = rules
    /\ registry = EmptyRegistry
    /\ NoCall

Next ==
    \/ \E v \in OptIds : set_id(v)
    \/ \E a \in EngineArgs : init_expectation_engine(a[1], a[2])
    \/ \E a \in EngineArgs : init_expectation_suite_engine(a[1], a[2])
    \/ \E eid \in 1..MaxRulesLifecycle, t \in BOOLEAN, r \in Responses :
            get_expectation(eid, t, r)
    \/ \E e \in AddInputs, t \in BOOLEAN, f \in Faults :
            Exists(e) /\ add_expectation(e, t, f[1], f[2], MaxRulesLifecycle)
    \/ \E e \in ReplaceInputs, t \in BOOLEAN, f \in Faults :
            Exists(e) /\ replace_expectation(e, t, f[1], f[2])
    \/ \E eid \in {None} \cup {Some(i) : i \in 1..MaxRulesLifecycle}, f \in Faults :
            remove_expectation(eid, f[1], f[2])
    \/ \E v \in ListInputs : ListExists(v) /\ set_expectations(v)
    \/ \E r \in Responses : set_expectation_suite_name("n1", r)
    \/ \E r \in Responses : set_run_validation(TRUE, r)
    \/ \E r \in Responses : set_validation_ingestion_policy("always", r)
    \/ \E r \in Responses : set_meta([dict |-> {<<"note", 1>>}], r)
    \/ set_data_asset_type(None)
    \/ set_ge_cloud_id(None)
    \/ set_ge_coud_id(None)

Spec == Init /\ [][Next]_vars

\* RuleSpec: the rule-level operations on a suite the constructor built
\* attached, with the caller also assigning the rule list.
RuleInit ==
    /\ has_ge \in BOOLEAN
    /\ \E rules \in {<<>>, <<Rule(Some(1), "t1", NoDict)>>} :
        LET built == ExpectationSuite(has_ge,
                        SuiteKw(Some(1), Some(1), Some(1), None,
                                [list |-> [i \in 1..Len(rules) |-> [ge |-> rules[i]]]]))
        IN  /\ suite = built.ret
            /\ server = rules
    /\ registry = EmptyRegistry
    /\ NoCall

RuleNext ==
    \/ \E eid \in 1..MaxRules, t \in BOOLEAN, r \in Responses :
            get_expectation(eid, t, r)
    \/ \E e \in AddInputs, t \in BOOLEAN, f \in Faults :
            Exists(e) /\ add_expectation(e, t, f[1], f[2], MaxRules)
    \/ \E e \in ReplaceInputs, t \in BOOLEAN, f \in Faults :
            Exists(e) /\ replace_expectation(e, t, f[1], f[2])
    \/ \E eid \in {None} \cup {Some(i) : i \in 1..MaxRules}, f \in Faults :
            remove_expectation(eid, f[1], f[2])
    \/ \E v \in RuleLists : ListExists(v) /\ set_expectations(v)

RuleSpec == RuleInit /\ [][RuleNext]_vars

\* SetterSpec: the property setters, with the values they store, on a suite
\* in each state of attachment.
NameInputs == {"n1", "n2"}
PolicyInputs == {"always", "strict", "STRICT"}
MetaInputs ==
    {[dict |-> {<<"note", 1>>}],
     [dict |-> {<<"myKey", 2>>}],
     [str |-> json_dumps([dict |-> {<<"myKey", 2>>}])],
     [str |-> [text |-> "oops"]],
     [other |-> 0]}
AssetTypes == {None, Some("d")}
CloudIds == {None, Some(7)}

SetterInit ==
    /\ has_ge = TRUE
    /\ \E id \in OptIds, p \in ParentIds :
        LET built == ExpectationSuite(has_ge, SuiteKw(id, p, p, None, [list |-> <<>>]))
        IN  /\ Returned(built)
            /\ suite = built.ret
    /\ server = <<>>
    /\ registry = EmptyRegistry
    /\ NoCall

SetterNext ==
    \/ \E v \in OptIds : set_id(v)
    \/ \E a \in EngineArgs : init_expectation_suite_engine(a[1], a[2])
    \/ \E v \in NameInputs, r \in Responses : set_expectation_suite_name(v, r)
    \/ \E v \in BOOLEAN, r \in Responses : set_run_validation(v, r)
    \/ \E v \in PolicyInputs, r \in Responses : set_validation_ingestion_policy(v, r)
    \/ \E v \in MetaInputs, r \in Responses : set_meta(v, r)
    \/ \E v \in AssetTypes : set_data_asset_type(v)
    \/ \E v \in CloudIds : set_ge_cloud_id(v)
    \/ \E v \in CloudIds : set_ge_coud_id(v)
    \/ \E v \in ListInputs : ListExists(v) /\ set_expectations(v)

SetterSpec == SetterInit /\ [][SetterNext]_vars

\* RoundTripSpec: to_json_dict followed by the constructor, as one call, on
\* the suites the constructor builds from each kind of argument, and on those
\* suites after the id setter.
round_trip(decam) ==
    /\ Call([op |-> "round_trip", decamelize |-> decam], <<>>,
            ExpectationSuite(has_ge, to_json_dict(suite, decam)))
    /\ UNCHANGED <<suite, has_ge, server, registry>>

RoundTripRules ==
    {<<>>,
     <<Rule(None, "t1", NoDict)>>,
     <<Rule(Some(1), "t1", {<<"expectationId", 1>>})>>,
     <<Rule(Some(1), "t1", {<<"note", 1>>}), Rule(Some(2), "t2", NoDict)>>}

RoundTripInit ==
    /\ has_ge \in BOOLEAN
    /\ \E id \in OptIds, fs \in ParentIds, fg \in ParentIds,
          href \in {None, Some(GoodHref), Some(BadHref)},
          rules \in RoundTripRules, name \in NameInputs,
          meta \in {[dict |-> {<<"note", 1>>}], [dict |-> {<<"myKey", 2>>}],
                    [str |-> json_dumps([dict |-> {<<"note", 1>>}])]},
          policy \in {"always", "strict"}, extra \in BOOLEAN :
        LET kw == [expectation_suite_name |-> name,
                   expectations |-> [list |-> [i \in 1..Len(rules) |-> [ge |-> rules[i]]]],
                   meta |-> meta, id |-> id, feature_store_id |-> fs,
                   feature_group_id |-> fg, href |-> href,
                   validation_ingestion_policy |-> policy]
            more == [expectation_suite_name |-> name,
                   expectations |-> [list |-> [i \in 1..Len(rules) |-> [ge |-> rules[i]]]],
                   meta |-> meta, id |-> id, feature_store_id |-> fs,
                   feature_group_id |-> fg, href |-> href,
                   validation_ingestion_policy |-> policy,
                   run_validation |-> FALSE, ge_cloud_id |-> Some(7),
                   data_asset_type |-> Some("d")]
            built == ExpectationSuite(has_ge, IF extra THEN more ELSE kw)
        IN  /\ Returned(built)
            /\ suite = built.ret
    /\ server = <<>>
    /\ registry = EmptyRegistry
    /\ NoCall

RoundTripNext ==
    \/ \E decam \in BOOLEAN : round_trip(decam)
    \/ \E v \in OptIds : set_id(v)

RoundTripSpec == RoundTripInit /\ [][RoundTripNext]_vars

\* ModelSpec: the model registry's API against a registry that starts empty.
ModelInit ==
    /\ has_ge = TRUE
    /\ suite = ExpectationSuite(has_ge,
                    SuiteKw(None, None, None, None, [list |-> <<>>])).ret
    /\ server = <<>>
    /\ registry = EmptyRegistry
    /\ NoCall

ModelNext ==
    \/ \E m \in ModelInstances, r \in Responses : put(m, NoQuery, r)
    \/ \E n \in ModelNames, v \in Versions, rid \in RegistryIds,
          sh \in SharedProjects, r \in Responses : get(n, v, rid, sh, r)
    \/ \E n \in ModelNames, rid \in RegistryIds, sh \in SharedProjects,
          mt \in Metrics, d \in Directions, a \in ModelsAnswers :
            /\ sh = None \/ (mt = None /\ d = None)
            /\ get_models(n, rid, sh, mt, d, a[1], a[2])
    \/ \E m \in ModelInstances, r \in Responses : delete(m, r)
    \/ \E m \in ModelInstances, t \in TagInputs, r \in Responses :
            set_tag(m, t[1], t[2], r)
    \/ \E m \in ModelInstances, t \in TagNames, r \in Responses : delete_tag(m, t, r)
    \/ \E m \in ModelInstances, r \in Responses : get_tags(m, r)
    \/ \E m \in ModelInstances, t \in TagNames, r \in Responses : get_tag(m, t, r)
    \/ \E m \in ModelInstances, r \in Responses, g \in Graphs :
            get_feature_view_provenance(m, r, g)
    \/ \E m \in ModelInstances, r \in Responses, g \in Graphs :
            get_training_dataset_provenance(m, r, g)

ModelSpec == ModelInit /\ [][ModelNext]_vars

(***************************************************************************)
(* Properties.                                                             *)
(***************************************************************************)
\* The suite counts as attached where the code's test "if self.id:" passes.
Attached == Truthy(suite.id)

RuleOps ==
    {"get_expectation", "add_expectation", "replace_expectation", "remove_expectation"}
MutatingRuleOps == {"add_expectation", "replace_expectation", "remove_expectation"}

\* C1: on a suite without id, each of get_expectation, add_expectation,
\* replace_expectation and remove_expectation raises FeatureStoreException
\* ("attach first"), sends no request, and leaves the local rule list as it was.
C1_UnattachedRuleOpsRaise ==
    [][(~Attached /\ lastOp'.op \in RuleOps)
        => /\ outcome' = Raise("FeatureStoreException")
           /\ reqs' = <<>>
           /\ suite'.expectations = suite.expectations]_vars

\* A suite that lost its id keeps a rule, and remove_expectation was refused.
C1_Witness ==
    /\ lastOp.op = "remove_expectation"
    /\ ~Attached
    /\ Len(suite.expectations) > 0
    /\ outcome = Raise("FeatureStoreException")
    /\ reqs = <<>>

\* C2: in every state reachable through the constructor, the setters (the id
\* setter included) and the operations, a suite whose id is set has its
\* feature_store_id and its feature_group_id set.
C2_IdImpliesParents ==
    Attached
        => suite.feature_store_id # None /\ suite.feature_group_id # None

\* C3: once the id of a suite is set, no operation or setter call unsets it.
C3_AttachedAbsorbing ==
    [][Attached => Attached']_vars

\* C6: when add_expectation, replace_expectation or remove_expectation returns
\* on an attached suite, it has sent the mutation (create, update, delete)
\* first and the fetch of the suite's rules second, and the local rule list is
\* the list that fetch returned: the server's list.
C6_MutateThenRefetch ==
    (lastOp.op \in MutatingRuleOps /\ Returned(outcome))
        => /\ Len(reqs) = 2
           /\ reqs[1].kind = (CASE lastOp.op = "add_expectation" -> "create"
                                [] lastOp.op = "replace_expectation" -> "update"
                                [] lastOp.op = "remove_expectation" -> "delete")
           /\ reqs[2] = Request("get_all", None)
           /\ suite.expectations = server

\* Two rules on the server, the second just created, and the local list has both.
C6_Witness ==
    /\ lastOp.op = "add_expectation"
    /\ Returned(outcome)
    /\ Len(server) = 2
    /\ suite.expectations = server

\* The suite's metadata-update manager exists (the constructor makes it when
\* it is given an id, _init_expectation_suite_engine makes it on demand).
Wired == suite.expectation_suite_engine # None

PushingSetters ==
    {"set_expectation_suite_name", "set_run_validation",
     "set_validation_ingestion_policy", "set_meta"}
LocalSetters == {"set_data_asset_type", "set_ge_coud_id", "set_expectations"}

\* The last call was one of the four pushing setters and it stored its value
\* (the meta setter stores nothing when it rejects the value).
Stored == lastOp.op \in PushingSetters /\ outcome # Raise("ValueError")

\* What the update of the last call must carry: the suite's fields as they
\* are after the call, the meta as its JSON text.
CarriesFields(rq) ==
    /\ rq.kind = "update_metadata"
    /\ rq.arg.expectation_suite_name = suite.expectation_suite_name
    /\ rq.arg.run_validation = suite.run_validation
    /\ rq.arg.validation_ingestion_policy = suite.validation_ingestion_policy
    /\ rq.arg.meta = [str |-> [json |-> suite.meta]]

\* The field the last pushing setter wrote holds the value it was given.
HoldsNewValue ==
    CASE lastOp.op = "set_expectation_suite_name" ->
            suite.expectation_suite_name = lastOp.value
      [] lastOp.op = "set_run_validation" -> suite.run_validation = lastOp.value
      [] lastOp.op = "set_validation_ingestion_policy" ->
            suite.validation_ingestion_policy =
                (IF lastOp.value = "always" THEN "ALWAYS" ELSE "STRICT")
      [] lastOp.op = "set_meta" ->
            IF IsType(lastOp.value, "dict") THEN suite.meta = lastOp.value
            ELSE [json |-> suite.meta] = lastOp.value.str

\* C4 (as the code has it): the setters of expectation_suite_name,
\* run_validation, validation_ingestion_policy and meta store the value and,
\* on an attached suite whose metadata-update manager exists, send one
\* metadata update that carries it; on an attached suite without that manager
\* they store the value, send nothing and raise AttributeError; the meta
\* setter sends nothing when it rejects its value with ValueError; the setters of
\* data_asset_type and expectations, and the setter defined as ge_coud_id,
\* send nothing; assigning to ge_cloud_id raises AttributeError.
C4_FourSettersPush ==
    /\ Stored => HoldsNewValue
    /\ (Stored /\ Attached /\ Wired)
            => Len(reqs) = 1 /\ CarriesFields(reqs[1])
    /\ (Stored /\ Attached /\ ~Wired)
            => reqs = <<>> /\ outcome = Raise("AttributeError")
    /\ (lastOp.op = "set_meta" /\ outcome = Raise("ValueError")) => reqs = <<>>
    /\ lastOp.op \in LocalSetters => reqs = <<>>
    /\ lastOp.op = "set_ge_cloud_id"
            => reqs = <<>> /\ outcome = Raise("AttributeError")

\* The meta setter, given JSON text on an attached suite, has sent the update.
C4_Witness ==
    /\ lastOp.op = "set_meta"
    /\ IsType(lastOp.value, "str")
    /\ Attached /\ Wired
    /\ Len(reqs) = 1
    /\ suite.meta = [dict |-> {<<"myKey", 2>>}]

\* C4 (as stated): every property setter, those of data_asset_type,
\* ge_cloud_id and expectations included, sends a metadata update when it is
\* called on an attached suite.
C4_EverySetterPushes ==
    (/\ lastOp.op \in PushingSetters \cup
                {"set_data_asset_type", "set_ge_cloud_id", "set_expectations"}
     /\ Attached /\ Wired)
        => Len(reqs) = 1 /\ reqs[1].kind = "update_metadata"

\* C5: setting validation_ingestion_policy to "strict" stores "STRICT"; the
\* call sends exactly one metadata update on a suite whose id is set, and no
\* request on a suite without id.
C5_StrictPolicy ==
    (lastOp.op = "set_validation_ingestion_policy" /\ lastOp.value = "strict")
        => /\ suite.validation_ingestion_policy = "STRICT"
           /\ Attached => Len(reqs) = 1 /\ reqs[1].kind = "update_metadata"
           /\ ~Attached => reqs = <<>>

\* A rule as the constructor rebuilds it from the snake_case map: the keys of
\* its kwargs and of its meta rewritten to snake_case.
Rewritten(rule) ==
    [id |-> rule.id, expectation_type |-> rule.expectation_type,
     kwargs |-> decamelize_flat(rule.kwargs), meta |-> decamelize_flat(rule.meta)]

\* C7 (as the code has it): the constructor called on to_json_dict() (the
\* camelCase map) raises TypeError, the map having no expectation_suite_name;
\* called on to_json_dict(decamelize=True) it raises AssertionError when the
\* suite's id is set and a parent id is missing, and otherwise returns a suite
\* with the same name and ingestion policy, whose metadata and rules are those
\* of the suite with their camelCase keys rewritten to snake_case.
C7_RoundTripSnakeOnly ==
    lastOp.op = "round_trip" =>
        IF ~lastOp.decamelize THEN outcome = Raise("TypeError")
        ELSE IF Attached /\ (suite.feature_store_id = None \/ suite.feature_group_id = None)
        THEN outcome = Raise("AssertionError")
        ELSE /\ Returned(outcome)
             /\ outcome.ret.expectation_suite_name = suite.expectation_suite_name
             /\ outcome.ret.validation_ingestion_policy = suite.validation_ingestion_policy
             /\ outcome.ret.meta = [dict |-> decamelize_flat(suite.meta.dict)]
             /\ outcome.ret.expectations =
                    [i \in 1..Len(suite.expectations) |-> Rewritten(suite.expectations[i])]

\* The snake_case round trip of a suite of two rules returned the same rules.
C7_Witness ==
    /\ lastOp.op = "round_trip"
    /\ lastOp.decamelize
    /\ Returned(outcome)
    /\ Len(suite.expectations) = 2
    /\ outcome.ret.expectations = suite.expectations

\* C7 (as stated): for both variants of to_json_dict the constructor returns
\* a suite with the same name, rule list, metadata and ingestion policy.
C7_RoundTripBothVariants ==
    lastOp.op = "round_trip" =>
        /\ Returned(outcome)
        /\ outcome.ret.expectation_suite_name = suite.expectation_suite_name
        /\ outcome.ret.expectations = suite.expectations
        /\ outcome.ret.meta = suite.meta
        /\ outcome.ret.validation_ingestion_policy = suite.validation_ingestion_policy

\* C8: get sends a single GET on .../models/{name}_{version}; it returns
\* None when the backend answers not-found, raises the backend's error when
\* the backend answers any other error, and otherwise returns the model
\* decoded from the response.
C8_GetByNameAndVersion ==
    lastOp.op = "get" =>
        /\ Len(reqs) = 1
        /\ reqs[1].method = "GET"
        /\ Len(reqs[1].path) = 6
        /\ reqs[1].path[5] = "models"
        /\ reqs[1].path[6] = <<lastOp.name, "_", lastOp.version>>
        /\ lastOp.answer = "not_found" => outcome = Return(None)
        /\ lastOp.answer = "error"
                => outcome = [raise |-> "RestAPIError", status |-> 500]
        /\ lastOp.answer = "ok"
                => /\ Returned(outcome)
                   /\ outcome.ret # None
                   /\ outcome.ret[1].name = lastOp.name
                   /\ outcome.ret[1].version = lastOp.version

\* Version 2 was asked for while only version 1 is registered: None.
C8_Witness ==
    /\ lastOp.op = "get"
    /\ lastOp.version = 2
    /\ lastOp.answer = "not_found"
    /\ outcome = Return(None)
    /\ registry[<<lastOp.name, "_", 1>>] # None

\* C9: the request of get_models filters by name; it carries sort_by and
\* limit exactly when metric and direction are both given, the limit is 1,
\* and sort_by is "{metric}:desc" for direction "max" and "{metric}:asc" for
\* direction "min".
C9_BestModelQuery ==
    lastOp.op = "get_models" =>
        LET q == reqs[1].query
            both == lastOp.metric # None /\ lastOp.direction # None
        IN  /\ Len(reqs) = 1
            /\ q.filter_by = <<<<"name_eq:", lastOp.name>>>>
            /\ both <=> "sort_by" \in DOMAIN q
            /\ both <=> "limit" \in DOMAIN q
            /\ both => q.limit = "1"
            /\ (both /\ lastOp.direction = Some("max"))
                    => q.sort_by = <<lastOp.metric[1], ":", "desc">>
            /\ (both /\ lastOp.direction = Some("min"))
                    => q.sort_by = <<lastOp.metric[1], ":", "asc">>

\* The best model by the smallest metric was asked for, and one came back.
C9_Witness ==
    /\ lastOp.op = "get_models"
    /\ lastOp.metric = Some("accuracy")
    /\ lastOp.direction = Some("min")
    /\ Returned(outcome)
    /\ Cardinality(outcome.ret) = 1

\* C10: get_tags returns the empty map and get_tag returns None when the
\* backend answers not-found; get_tags otherwise returns the map of every tag
\* name of the model to its JSON-decoded value; set_tag sends the JSON text of
\* the value, a str and a dict alike.
C10_TagReadsAndWrites ==
    /\ lastOp.op = "get_tags" =>
        /\ lastOp.answer = "not_found" => outcome = Return(<<>>)
        /\ lastOp.answer = "ok" =>
            LET tags == registry[lastOp.model.id][1]
            IN  /\ Returned(outcome)
                /\ DOMAIN outcome.ret = {t \in TagNames : tags[t] # None}
                /\ \A t \in DOMAIN outcome.ret : tags[t] = Some([json |-> outcome.ret[t]])
    /\ (lastOp.op = "get_tag" /\ lastOp.answer = "not_found") => outcome = Return(None)
    /\ lastOp.op = "set_tag" =>
        /\ Len(reqs) = 1
        /\ reqs[1].method = "PUT"
        /\ reqs[1].data = [json |-> lastOp.value]

\* A model carries both tags, and get_tags returned the two of them decoded.
C10_Witness ==
    /\ lastOp.op = "get_tags"
    /\ lastOp.answer = "ok"
    /\ Returned(outcome)
    /\ DOMAIN outcome.ret = {"a", "b"}
    /\ outcome.ret["a"] = [str |-> [text |-> "x"]]

\* The artifacts of a graph that a lookup of one type keeps.
Parents(graph, type) == {a \in graph : a.type = type}

\* C11: when the backend answers, get_feature_view_provenance and
\* get_training_dataset_provenance return None exactly when the answer holds
\* no upstream artifact of their type, and otherwise the collection of those
\* artifacts, deleted and inaccessible ones included; the first asks for 2
\* upstream levels, the second for 1, both for 0 downstream levels.
C11_ProvenanceNoneIffEmpty ==
    /\ lastOp.op = "get_feature_view_provenance" =>
        /\ Len(reqs) = 1
        /\ reqs[1].query.upstreamLvls = 2
        /\ reqs[1].query.downstreamLvls = 0
        /\ lastOp.answer = "ok" =>
            LET kept == Parents(lastOp.graph, "feature_view")
            IN  /\ (outcome = Return(None)) <=> (kept = {})
                /\ kept # {} => outcome = Return(Some([links |-> kept]))
    /\ lastOp.op = "get_training_dataset_provenance" =>
        /\ Len(reqs) = 1
        /\ reqs[1].query.upstreamLvls = 1
        /\ reqs[1].query.downstreamLvls = 0
        /\ lastOp.answer = "ok" =>
            LET kept == Parents(lastOp.graph, "training_dataset")
            IN  /\ (outcome = Return(None)) <=> (kept = {})
                /\ kept # {} => outcome = Return(Some([links |-> kept]))

\* The only parent is a deleted feature view, and the lookup returned it.
C11_Witness ==
    /\ lastOp.op = "get_feature_view_provenance"
    /\ lastOp.answer = "ok"
    /\ outcome = Return(Some([links |-> {Artifact("feature_view", "deleted")}]))

\* SearchSpec: the search-index API, in every session and under every
\* answer of the backend.
SearchInit == ModelInit

SearchNext ==
    \/ \E e \in BOOLEAN, d \in Domains, r \in LookupAnswers : get_opensearch_url(e, d, r)
    \/ \E tk \in TokenAnswers : get_authorization_token(tk)
    \/ \E e \in BOOLEAN, d \in Domains, r \in LookupAnswers, tk \in TokenAnswers :
            get_default_py_config(e, d, r, tk)
    \/ \E p \in ProjectNames, i \in IndexNames : get_project_index(p, i)

SearchSpec == SearchInit /\ [][SearchNext]_vars

\* The map of a returning get_default_py_config holds the host and the port
\* of the resolved url, the TLS flags, the CA path and the fetched token.
HoldsConfig ==
    /\ Returned(outcome)
    /\ Len(outcome.ret.hosts) = 1
    /\ outcome.ret.hosts[1].port = 9200
    /\ outcome.ret.hosts[1].host =
            (IF lastOp.external THEN <<lastOp.domain>>
             ELSE <<"rest.elastic.service.", lastOp.domain>>)
    /\ outcome.ret.use_ssl /\ outcome.ret.verify_certs
    /\ ~outcome.ret.ssl_assert_hostname
    /\ outcome.ret.ca_certs = "ca_chain.pem"
    /\ outcome.ret.headers.Authorization = lastOp.token[1]
    /\ reqs[Len(reqs)].path = <<"elastic", "jwt", ProjectId>>

\* C12 (as the code has it): get_default_py_config raises
\* FeatureStoreException and returns no map when the session is not external
\* and the service-discovery domain is empty; it raises and returns no map
\* when the lookup of the domain fails, and raises the backend's error when
\* the token request fails; in every other case it returns the map.
C12_ConfigOrError ==
    lastOp.op = "get_default_py_config" =>
        IF lastOp.lookup # "ok" THEN Raised(outcome) /\ Len(reqs) = 1
        ELSE IF ~lastOp.external /\ lastOp.domain = ""
        THEN outcome = Raise("FeatureStoreException") /\ Len(reqs) = 1
        ELSE IF lastOp.token = None
        THEN outcome = [raise |-> "RestAPIError", status |-> 500]
        ELSE HoldsConfig

\* An internal session with a resolved domain got its map.
C12_Witness ==
    /\ lastOp.op = "get_default_py_config"
    /\ ~lastOp.external
    /\ lastOp.domain = "consul"
    /\ HoldsConfig

\* C12 (as stated): once the domain is looked up, the call raises
\* FeatureStoreException when the session is not external and the domain is
\* empty, and returns the map in every other case.
C12_ConfigInEveryOtherCase ==
    (lastOp.op = "get_default_py_config" /\ lastOp.lookup = "ok") =>
        IF ~lastOp.external /\ lastOp.domain = ""
        THEN outcome = Raise("FeatureStoreException")
        ELSE HoldsConfig

\* C13: when the metadata update of a pushing setter fails with a backend
\* error on an attached suite, the error reaches the caller and the suite's
\* fields are what they were before the call.
C13_FailedUpdateLeavesFields ==
    [][(/\ Attached
        /\ lastOp'.op \in PushingSetters
        /\ Len(reqs') = 1
        /\ Raised(outcome'))
        => /\ outcome' = [raise |-> "RestAPIError", status |-> 500]
           /\ suite' = suite]_vars

(***************************************************************************)
(* CtorSpec: the constructor, called with any arguments.                   *)
(***************************************************************************)
\* The test of the meta setter before it pushes:
\* self._id and hasattr(self, "_expectation_suite_engine").
meta_update_due(id, has_engine) == Truthy(id) /\ has_engine

\* What a call of __init__ sends and yields.  has_engine tells whether the
\* object has its _expectation_suite_engine when the setters run.
constructed(ge, kw, has_engine) ==
    LET built == ExpectationSuite(ge, kw)
    IN  [out |-> built,
         reqs |-> IF Returned(built) /\ meta_update_due(kw.id, has_engine)
                  THEN <<Request("update_metadata", decamelize(to_dict(built.ret)))>>
                  ELSE <<>>]

\* A constructor that wires the managers before it calls the setters.
construct_engines_first(kw) ==
    LET c == constructed(has_ge, kw, TRUE)
    IN  /\ suite' = IF Returned(c.out) THEN c.out.ret ELSE suite
        /\ Call([op |-> "__init__", kw |-> kw], c.reqs,
                IF Returned(c.out) THEN Return(None) ELSE c.out)
        /\ UNCHANGED <<has_ge, server, registry>>

\* __init__: the setters of expectations and meta run before
\* _expectation_suite_engine is assigned.
construct(kw) ==
    LET c == constructed(has_ge, kw, FALSE)
    IN  /\ suite' = IF Returned(c.out) THEN c.out.ret ELSE suite
        /\ Call([op |-> "__init__", kw |-> kw], c.reqs,
                IF Returned(c.out) THEN Return(None) ELSE c.out)
        /\ UNCHANGED <<has_ge, server, registry>>

Hrefs == {None, Some(GoodHref), Some(BadHref)}
CtorParents == {<<None, None>>, <<Some(1), None>>, <<Some(1), Some(1)>>}
CtorLists ==
    {[none |-> TRUE], [other |-> 0],
     [list |-> <<[ge |-> Rule(Some(1), "t1", NoDict)]>>]}
CtorMetas == {[dict |-> {<<"note", 1>>}], [other |-> 0]}
CtorInputs ==
    {[SuiteKw(id, p[1], p[2], href, exps) EXCEPT !.meta = meta] :
        id \in OptIds, p \in CtorParents, href \in Hrefs,
        exps \in CtorLists, meta \in CtorMetas}

CtorInit ==
    /\ has_ge = TRUE
    /\ suite = ExpectationSuite(TRUE, SuiteKw(None, None, None, None,
                                              [list |-> <<>>])).ret
    /\ server = <<>>
    /\ registry = EmptyRegistry
    /\ NoCall

CtorNext == \E kw \in CtorInputs : construct(kw)

CtorSpec == CtorInit /\ [][CtorNext]_vars

\* ApiSpec: the three APIs in one run.  They share no state, so each is
\* exercised while the state of the others is the initial one.
SuiteUntouched == server = <<>> /\ suite = ExpectationSuite(TRUE,
                    SuiteKw(None, None, None, None, [list |-> <<>>])).ret

ApiNext ==
    \/ registry = EmptyRegistry /\ Next
    \/ SuiteUntouched /\ ModelNext
    \/ SuiteUntouched /\ registry = EmptyRegistry /\ SearchNext

ApiSpec == Init /\ [][ApiNext]_vars

\* Two requests are the same request.
SameRequest(a, b) ==
    /\ DOMAIN a = DOMAIN b
    /\ IF "kind" \in DOMAIN a THEN a.kind = b.kind
       ELSE a.method = b.method /\ a.path = b.path

\* C14: no operation of the suite, of the model API or of the search-index
\* API sends a request twice, and none sends a request after one of its
\* requests failed: an operation whose first request fails has sent that
\* request only.
C14_NoRetry ==
    /\ \A i, j \in 1..Len(reqs) : SameRequest(reqs[i], reqs[j]) => i = j
    /\ Len(reqs) <= 2
    /\ Len(reqs) = 2 =>
            lastOp.op \in MutatingRuleOps \cup {"get_default_py_config"}
    /\ ("first" \in DOMAIN lastOp /\ lastOp.first # "ok")
            => Len(reqs) = 1 /\ Raised(outcome)
    /\ ("lookup" \in DOMAIN lastOp /\ lastOp.lookup # "ok")
            => Len(reqs) = 1 /\ Raised(outcome)
    /\ (Len(reqs) = 1 /\ "answer" \in DOMAIN lastOp /\ lastOp.answer = "error")
            => Raised(outcome)

\* The creation went through, the fetch of the list failed, and that was it.
C14_Witness ==
    /\ lastOp.op = "add_expectation"
    /\ "first" \in DOMAIN lastOp
    /\ lastOp.first = "ok" /\ lastOp.second = "error"
    /\ Len(reqs) = 2
    /\ outcome = [raise |-> "RestAPIError", status |-> 500]

MutatingModelOps == {"put", "delete", "set_tag", "delete_tag"}

\* C15: delete, put, set_tag and delete_tag swallow no backend error: an
\* answer other than success, not-found included, reaches the caller as the
\* error it is and the registry is left as it was; deleting a model that is
\* not (or no longer) in the registry raises not-found.
C15_MutationsPropagate ==
    [][lastOp'.op \in MutatingModelOps =>
        /\ Len(reqs') = 1
        /\ lastOp'.answer = "ok" <=> Returned(outcome')
        /\ lastOp'.answer # "ok" =>
                /\ outcome' = RestAPIError(lastOp'.answer)
                /\ registry' = registry
        /\ (lastOp'.op = "delete" /\ registry[lastOp'.model.id] = None
                /\ lastOp'.answer # "error")
            => outcome' = [raise |-> "RestAPIError", status |-> 404]]_vars

\* A model was deleted, and deleting it again has raised not-found.
C15_Witness ==
    /\ lastOp.op = "delete"
    /\ lastOp.answer = "not_found"
    /\ registry[lastOp.model.id] = None
    /\ outcome = [raise |-> "RestAPIError", status |-> 404]

\* The parent identifiers are present: both given, or an href they parse from.
ParentsPresent(kw) ==
    \/ kw.feature_store_id # None /\ kw.feature_group_id # None
    \/ kw.href # None /\ href_search(kw.href[1]) # None

\* The rule list and the meta the constructor is given are ones it accepts.
ListsAccepted(kw) ==
    /\ Returned(expectations_setter(has_ge, kw.expectations))
    /\ Returned(meta_setter(kw.meta))

BothWired ==
    /\ suite.expectation_engine # None
    /\ suite.expectation_suite_engine # None

NoneWired ==
    /\ suite.expectation_engine = None
    /\ suite.expectation_suite_engine = None

Normalized(e) ==
    CASE IsType(e, "ge") -> e.ge
      [] IsType(e, "native") ->
            [id |-> None, expectation_type |-> e.native.expectation_type,
             kwargs |-> e.native.kwargs, meta |-> e.native.meta]
      [] IsType(e, "dict") ->
            [id |-> IF "id" \in DOMAIN e.dict THEN e.dict.id ELSE None,
             expectation_type |-> e.dict.expectation_type,
             kwargs |-> e.dict.kwargs, meta |-> e.dict.meta]

\* A local rule, a great_expectations object, or a map that names a rule.
Supported(e) ==
    \/ IsType(e, "ge")
    \/ IsType(e, "native")
    \/ /\ IsType(e, "dict")
       /\ {"expectation_type", "kwargs", "meta"} \subseteq DOMAIN e.dict

\* C17: assigning the rule list sends nothing and replaces the list held by
\* the suite with the local rules the inputs stand for, in the order given;
\* None gives the empty list; a value that is not a list, or a list with an
\* element that is no rule, raises TypeError.
C17_AssignList ==
    lastOp.op = "set_expectations" =>
        LET v == lastOp.value
        IN  /\ reqs = <<>>
            /\ IsType(v, "none") => Returned(outcome) /\ suite.expectations = <<>>
            /\ (IsType(v, "list") /\ \A i \in 1..Len(v.list) : Supported(v.list[i]))
                => /\ Returned(outcome)
                   /\ suite.expectations =
                        [i \in 1..Len(v.list) |-> Normalized(v.list[i])]
            /\ (IsType(v, "list") /\ \E i \in 1..Len(v.list) : ~ Supported(v.list[i]))
                => outcome = Raise("TypeError")
            /\ (~ IsType(v, "none") /\ ~ IsType(v, "list"))
                => outcome = Raise("TypeError")

\* A map and a great_expectations object were assigned: two local rules, the
\* map's first.
C17_Witness ==
    /\ lastOp.op = "set_expectations"
    /\ IsType(lastOp.value, "list")
    /\ Len(lastOp.value.list) = 2
    /\ IsType(lastOp.value.list[1], "dict")
    /\ IsType(lastOp.value.list[2], "native")
    /\ Len(suite.expectations) = 2
    /\ suite.expectations[1].expectation_type = "t2"
    /\ suite.expectations[2].expectation_type = "t1"
    /\ server # suite.expectations

\* The rule names the rule it replaces: by its id or by its meta.
CarriesId(rule) ==
    \/ Truthy(rule.id)
    \/ \E p \in rule.meta : p[1] = "expectationId"

\* C18: replace_expectation on an attached suite, given a rule: a rule that
\* carries no id makes it raise with nothing sent, the local list and the
\* server's list left as they were; for a rule that carries one, the update
\* is the first request and the fetch of the list, when it is sent, the second.
C18_IdCheckBeforeUpdate ==
    [][(/\ lastOp'.op = "replace_expectation"
        /\ Attached /\ suite.expectation_engine # None
        /\ IsType(lastOp'.arg, "ge"))
        => IF ~ CarriesId(lastOp'.arg.ge)
           THEN /\ reqs' = <<>>
                /\ Raised(outcome')
                /\ suite' = suite
                /\ server' = server
           ELSE /\ Len(reqs') \in {1, 2}
                /\ reqs'[1].kind = "update"
                /\ Truthy(reqs'[1].arg.id)
                /\ Len(reqs') = 2 => reqs'[2] = Request("get_all", None)
                /\ Returned(outcome') => Len(reqs') = 2]_vars

\* A rule that names its id only in its meta has replaced the rule on the
\* server, and the list was fetched after the update.
C18_Witness ==
    /\ lastOp.op = "replace_expectation"
    /\ IsType(lastOp.arg, "ge")
    /\ lastOp.arg.ge.id = None
    /\ Returned(outcome)
    /\ Len(reqs) = 2
    /\ reqs[1].kind = "update"
    /\ reqs[2].kind = "get_all"
    /\ Len(suite.expectations) = 1
    /\ suite.expectations[1].expectation_type = "t2"

\* C19: in every state reached from the constructor by the setters, the id
\* setter included, a suite whose id is set has its rule-level manager and
\* its metadata-update manager.
C19_IdImpliesManagers == Attached => BothWired

\* C20: the constructor sends no request, whatever it is given and whether
\* it returns a suite or raises: the setters of expectations and of meta it
\* calls send no metadata update, also for a suite built with its id and its
\* parents.
C20_ConstructorSendsNothing ==
    lastOp.op = "__init__" => reqs = <<>>

\* A suite was built attached, with a rule and a meta, and nothing was sent.
C20_Witness ==
    /\ lastOp.op = "__init__"
    /\ Returned(outcome)
    /\ Attached /\ BothWired
    /\ suite.id = lastOp.kw.id
    /\ Len(suite.expectations) = 1
    /\ suite.meta = [dict |-> {<<"note", 1>>}]
    /\ reqs = <<>>

\* C21: on an attached suite, when the create, update or delete request of
\* add_expectation, replace_expectation or remove_expectation fails at the
\* backend, that request is the only one sent (no fetch of the list follows),
\* the caller gets the backend's error, and the suite, its rule list
\* included, and the server's rules are what they were before the call.
C21_FailedMutationLeavesList ==
    [][(/\ lastOp'.op \in MutatingRuleOps
        /\ "first" \in DOMAIN lastOp'
        /\ lastOp'.first # "ok")
        => /\ Attached
           /\ Len(reqs') = 1
           /\ reqs'[1].kind =
                (CASE lastOp'.op = "add_expectation" -> "create"
                   [] lastOp'.op = "replace_expectation" -> "update"
                   [] lastOp'.op = "remove_expectation" -> "delete")
           /\ outcome' = RestAPIError(lastOp'.first)
           /\ suite'.expectations = suite.expectations
           /\ suite' = suite
           /\ server' = server]_vars

\* The delete of a rule failed at the backend: one request, the error raised,
\* and the suite still holds its rule.
C21_Witness ==
    /\ lastOp.op = "remove_expectation"
    /\ "first" \in DOMAIN lastOp
    /\ lastOp.first = "error"
    /\ Attached
    /\ reqs = <<Request("delete", Some(1))>>
    /\ outcome = [raise |-> "RestAPIError", status |-> 500]
    /\ Len(suite.expectations) = 1
    /\ server = suite.expectations

====
